---------------------------- MODULE Spec2Model ----------------------------
(***************************************************************************)
(* State-machine model of src/src/api/http.go: the HTTP firmware-response  *)
(* handler (HandleFirmwareResponseMessages), the CLI sessions addressGen   *)
(* and recovery, the frame encoder makeSkyWalletMessage, the device        *)
(* driver, the response decoders, the server and writeHTTPResponse.        *)
(*                                                                         *)
(* Each component has its own specification over the shared variable       *)
(* tuple; the variables of the other components stay at their idle value.  *)
(*   Spec            HandleFirmwareResponseMessages (http.go 282-380)      *)
(*   SpecAddressGen  addressGenCmd action           (http.go 482-552)      *)
(*   SpecRecovery    recoveryCmd action             (http.go 594-636)      *)
(*   SpecCodec       makeSkyWalletMessage + decoder (http.go 795-817)      *)
(*   SpecFair        the handler, with fairness     (http.go 282-380 )     *)
(*   SpecSessions    handler or addressGen          (http.go 282-552 )     *)
(*   SpecDevice      GetDevice, getUsbDevice        (http.go 712-786 )     *)
(*   SpecSend        sendToDevice(NoAnswer)         (http.go 728-748 )     *)
(*   SpecDecoders    the response decoders          (http.go 832-911 )     *)
(*   SpecServer      Serve and Shutdown             (http.go 131-155 )     *)
(*   SpecSetPin      setPinCode action              (http.go 415-437 )     *)
(*   SpecWrite       writeHTTPResponse              (http.go 106-129 )     *)
(***************************************************************************)
EXTENDS Integers, Sequences, FiniteSets, TLC

VARIABLES
    \* ---- HandleFirmwareResponseMessages ----
    h_pc,       \* "call": an invocation is about to switch on h_msg; "done"
    h_msg,      \* the msg argument of the current (innermost) invocation
    h_chain,    \* history: every message the handler has switched on or holds
    h_sent,     \* history: messages written to the device by the handler
    h_resp,     \* history: HTTP responses written to w
    h_depth,    \* number of nested recursive invocations below the top one
    h_ackErr,   \* TRUE once gateway.ButtonAck() returned an error
    h_calls,    \* history: response decoders invoked, with the kind given
    \* ---- addressGenCmd ----
    a_pc,       \* "start" | "loop" | "decode" | "done"
    a_msg,      \* the local variable msg
    a_replies,  \* history: every reply the device returned, in order
    a_sent,     \* history: requests sent to the device, in order
    a_stdin,    \* history: what was read from the console ("pin"/"passphrase")
    a_out,      \* what the command printed / logged when it returned
    a_spins,    \* loop iterations that matched no branch (capped)
    a_calls,    \* history: response decoders invoked, with the kind given
    \* ---- recoveryCmd ----
    r_pc,       \* "start" | "words" | "button" | "decode" | "done"
    r_msg,
    r_replies,
    r_sent,
    r_stdin,
    r_out,
    \* ---- makeSkyWalletMessage ----
    c_pc,       \* "input" | "encoded" | "decoded"
    c_kind,     \* msgID
    c_payload,  \* data
    c_build,    \* which bytes.Buffer growth policy the toolchain has
    c_out,      \* result of makeSkyWalletMessage: chunks, or a panic
    c_dec,      \* result of decoding c_out.chunks
    \* ---- Driver.GetDevice / getUsbDevice ----
    g_pc,       \* "start" | "webusb" | "hidapi" | "enumerate" | "connect" | "check" | "done"
    g_type,     \* drv.deviceType
    g_infos,    \* infos: the enumerated device paths, in order
    g_enumErr,  \* the err variable of getUsbDevice after b.Enumerate()
    g_tries,    \* tries
    g_events,   \* history: connect attempts (path, ok) and sleeps, in order
    g_dev,      \* dev of GetDevice ("nil" or a handle)
    g_err,      \* err of GetDevice ("nil" or an error)
    \* ---- sendToDevice / sendToDeviceNoAnswer ----
    s_pc,       \* "write" | "read" | "done"
    s_fn,       \* which of the two functions runs
    s_chunks,   \* chunks
    s_i,        \* index of the next element of the range loop
    s_log,      \* history: device writes (chunk, ok) and reads (ok), in order
    s_ret,      \* the returned error, and whether a message was read
    \* ---- response decoders applied to one message ----
    d_msg,      \* the message
    d_res,      \* result of each decoder called so far
    \* ---- Server.Serve / Server.Shutdown ----
    v_nil,      \* the receiver s is nil
    v_serve,    \* Serve goroutine: "idle" | "serving" | "deferred" | "returned"
    v_listener, \* "open" | "closed"
    v_done,     \* the channel s.done is closed
    v_shut,     \* each Shutdown caller: "idle" | "closing" | "waiting" | "returned"
    v_closes,   \* number of s.listener.Close() calls made
    \* ---- setPinCode ----
    p_pc,       \* "start" | "loop" | "done"
    p_msg,
    p_replies,
    p_sent,
    p_stdin,
    p_out,
    \* ---- writeHTTPResponse called on its own ----
    w_pc,       \* "call" | "done"
    w_resp,     \* the resp argument
    w_out       \* what was written to w: the status and the body

vars == << h_pc, h_msg, h_chain, h_sent, h_resp, h_depth, h_ackErr,
           a_pc, a_msg, a_replies, a_sent, a_stdin, a_out, a_spins,
           r_pc, r_msg, r_replies, r_sent, r_stdin, r_out,
           c_pc, c_kind, c_payload, c_build, c_out, c_dec,
           h_calls, a_calls,
           g_pc, g_type, g_infos, g_enumErr, g_tries, g_events, g_dev, g_err,
           s_pc, s_fn, s_chunks, s_i, s_log, s_ret,
           d_msg, d_res,
           v_nil, v_serve, v_listener, v_done, v_shut, v_closes,
           p_pc, p_msg, p_replies, p_sent, p_stdin, p_out,
           w_pc, w_resp, w_out >>

h_vars == << h_pc, h_msg, h_chain, h_sent, h_resp, h_depth, h_ackErr, h_calls >>
a_vars == << a_pc, a_msg, a_replies, a_sent, a_stdin, a_out, a_spins, a_calls >>
r_vars == << r_pc, r_msg, r_replies, r_sent, r_stdin, r_out >>
c_vars == << c_pc, c_kind, c_payload, c_build, c_out, c_dec >>
g_vars == << g_pc, g_type, g_infos, g_enumErr, g_tries, g_events, g_dev, g_err >>
s_vars == << s_pc, s_fn, s_chunks, s_i, s_log, s_ret >>
d_vars == << d_msg, d_res >>
v_vars == << v_nil, v_serve, v_listener, v_done, v_shut, v_closes >>
p_vars == << p_pc, p_msg, p_replies, p_sent, p_stdin, p_out >>
w_vars == << w_pc, w_resp, w_out >>

\* the transport, driver, decoder, server, setPinCode and response-writer
\* components together
e_vars == << g_vars, s_vars, d_vars, v_vars, p_vars, w_vars >>

(***************************************************************************)
(* Bounds of the model.                                                    *)
(***************************************************************************)
\* longest reply chain the handler is driven through
MaxChain == 4
\* most requests a CLI session sends before the device stops answering
MaxSends == 4
\* most no-progress iterations of the addressGen loop that are followed
MaxSpins == 2
\* longest payload handed to makeSkyWalletMessage
MaxPayloadLen == 130

(***************************************************************************)
(* Messages (wire.Message): the kind and what the payload unmarshals to.   *)
(***************************************************************************)
PromptKinds == {"PinMatrixRequest", "PassphraseRequest", "WordRequest"}

TypedKinds == {"ResponseSkycoinAddress", "Features",
               "ResponseSkycoinSignMessage", "ResponseTransactionSign"}

\* the kinds HandleFirmwareResponseMessages has a case for
HandledKinds == PromptKinds \cup {"ButtonRequest", "Failure", "Success"} \cup TypedKinds

\* message kinds of the protocol that no session has a case for
OtherKinds == {"EntropyRequest", "Initialize"}

Kinds == HandledKinds \cup OtherKinds

\* texts a Success / Failure / typed payload can carry ("" : field absent)
Texts == {"", "declined"}

\* kinds whose payload some session unmarshals
PayloadKinds == {"Failure", "Success"} \cup TypedKinds

\* a wire.Message: Kind, and the Data abstracted to whether proto.Unmarshal
\* accepts it (decodes) and the text it then yields
Messages ==
    [kind : PayloadKinds, decodes : BOOLEAN, text : Texts]
    \cup [kind : Kinds \ PayloadKinds, decodes : {TRUE}, text : {""}]

NoMsg == [kind |-> "none", decodes |-> TRUE, text |-> ""]

(***************************************************************************)
(* Response decoders (http.go 832-911).  Result: err is "none",            *)
(* "unmarshal" or "wrongKind"; val is the decoded value.                   *)
(***************************************************************************)
\* DecodeKind, were the message unmarshalled whatever its kind
DecodeKind_coerce(msg, kind) ==
    IF msg.decodes
    THEN [err |-> "none", val |-> msg.text]
    ELSE [err |-> "unmarshal", val |-> ""]

DecodeKind(msg, kind) ==
    IF msg.kind = kind
    THEN IF msg.decodes
         THEN [err |-> "none", val |-> msg.text]
         ELSE [err |-> "unmarshal", val |-> ""]
    ELSE [err |-> "wrongKind", val |-> ""]

DecodeSuccessMsg(msg) == DecodeKind(msg, "Success")

DecodeFailMsg(msg) == DecodeKind(msg, "Failure")

DecodeResponseSkycoinAddress(msg) == DecodeKind(msg, "ResponseSkycoinAddress")

DecodeResponseTransactionSign(msg) == DecodeKind(msg, "ResponseTransactionSign")

DecodeResponseSkycoinSignMessage(msg) == DecodeKind(msg, "ResponseSkycoinSignMessage")

DecodeSuccessOrFailMsg(msg) ==
    IF msg.kind = "Success" THEN DecodeSuccessMsg(msg)
    ELSE IF msg.kind = "Failure" THEN DecodeFailMsg(msg)
    ELSE [err |-> "wrongKind", val |-> ""]

\* err.Error() of a decoder error
ErrText(err) ==
    IF err = "unmarshal" THEN "proto: cannot parse" ELSE "wrong message type"

(***************************************************************************)
(* HTTP responses (http.go 74-129).                                        *)
(***************************************************************************)
StatusOK == 200
StatusUnauthorized == 401
StatusConflict == 409
StatusInternalServerError == 500

\* http.StatusText, for the codes used here; "" for a code it does not know
StatusText(code) ==
    CASE code = StatusOK -> "OK"
      [] code = 400 -> "Bad Request"
      [] code = StatusUnauthorized -> "Unauthorized"
      [] code = StatusConflict -> "Conflict"
      [] code = StatusInternalServerError -> "Internal Server Error"
      [] OTHER -> ""

\* HTTPResponse{Data: d}
DataResponse(d) == [hasError |-> FALSE, code |-> 0, message |-> "", data |-> d]

NewHTTPErrorResponse(code, msg) ==
    [hasError |-> TRUE,
     code     |-> code,
     message  |-> IF msg = "" THEN StatusText(code) ELSE msg,
     data     |-> ""]

\* a Data value json.MarshalIndent returns an error for (a channel, a
\* func, a NaN); the Data values of the handler are strings, string lists
\* and a protobuf struct, which all marshal
Unmarshalable == "<unsupported type>"

\* line 107: json.MarshalIndent(resp, ...) succeeds
Marshals(resp) == resp.data # Unmarshalable

\* writeHTTPResponse, were the error's code written unchecked
writeHTTPResponse_anyCode(resp) ==
    IF ~Marshals(resp)
    THEN [status |-> StatusInternalServerError,
          body   |-> [plain |-> "json.MarshalIndent failed"]]
    ELSE [status |-> IF ~resp.hasError THEN StatusOK ELSE resp.code,
          body   |-> resp]

\* what writeHTTPResponse puts on the wire: the status line and the body;
\* wh.Error500 when the response cannot be marshalled (lines 107-111)
writeHTTPResponse(resp) ==
    IF ~Marshals(resp)
    THEN [status |-> StatusInternalServerError,
          body   |-> [plain |-> "json.MarshalIndent failed"]]
    ELSE [status |-> IF ~resp.hasError
                     THEN StatusOK
                     ELSE IF resp.code < 400 \/ resp.code >= 600
                          THEN StatusInternalServerError
                          ELSE resp.code,
          body   |-> resp]

(***************************************************************************)
(* Idle values of the components a specification does not run.             *)
(***************************************************************************)
\* what a CLI command has printed or logged: nothing yet
NoOut == [kind |-> "none", text |-> ""]

HandlerIdle ==
    /\ h_pc = "idle" /\ h_msg = NoMsg /\ h_chain = << >> /\ h_sent = << >>
    /\ h_resp = << >> /\ h_depth = 0 /\ h_ackErr = FALSE /\ h_calls = << >>

AddressGenIdle ==
    /\ a_pc = "idle" /\ a_msg = NoMsg /\ a_replies = << >> /\ a_sent = << >>
    /\ a_stdin = << >> /\ a_out = NoOut /\ a_spins = 0 /\ a_calls = << >>

RecoveryIdle ==
    /\ r_pc = "idle" /\ r_msg = NoMsg /\ r_replies = << >> /\ r_sent = << >>
    /\ r_stdin = << >> /\ r_out = NoOut

CodecIdle ==
    /\ c_pc = "idle" /\ c_kind = 0 /\ c_payload = << >> /\ c_build = "none"
    /\ c_out = [panic |-> FALSE, chunks |-> << >>]
    /\ c_dec = [err |-> "none", kind |-> 0, data |-> << >>]

\* a nil io.ReadWriteCloser
NilDev == [kind |-> "nil", path |-> 0]

DeviceIdle ==
    /\ g_pc = "idle" /\ g_type = 0 /\ g_infos = << >> /\ g_enumErr = "nil"
    /\ g_tries = 0 /\ g_events = << >> /\ g_dev = NilDev /\ g_err = "nil"

SendIdle ==
    /\ s_pc = "idle" /\ s_fn = "none" /\ s_chunks = << >> /\ s_i = 0
    /\ s_log = << >> /\ s_ret = [err |-> "nil", msg |-> FALSE]

DecodersIdle ==
    /\ d_msg = NoMsg /\ d_res = {}

ServerIdle ==
    /\ v_nil = FALSE /\ v_serve = "idle" /\ v_listener = "open"
    /\ v_done = FALSE /\ v_shut = << >> /\ v_closes = 0

SetPinIdle ==
    /\ p_pc = "idle" /\ p_msg = NoMsg /\ p_replies = << >> /\ p_sent = << >>
    /\ p_stdin = << >> /\ p_out = NoOut

\* the components of e_vars are all idle
WriteIdle ==
    /\ w_pc = "idle" /\ w_resp = DataResponse("")
    /\ w_out = [status |-> 0, body |-> DataResponse("")]

ExtraIdle ==
    /\ DeviceIdle /\ SendIdle /\ DecodersIdle /\ ServerIdle /\ SetPinIdle
    /\ WriteIdle

(***************************************************************************)
(* HandleFirmwareResponseMessages (http.go 282-380).                       *)
(***************************************************************************)
\* the Data string written for a prompt kind (lines 285-295)
PromptName(kind) ==
    CASE kind = "PinMatrixRequest" -> "PinMatrixRequest"
      [] kind = "PassphraseRequest" -> "PassPhraseRequest"
      [] kind = "WordRequest" -> "WordRequest"

\* err.Error() of a failed gateway.ButtonAck()
AckErrText == "device i/o error"

\* the response decoder each terminal case of the switch calls on msg
\* (lines 307, 317, 329, 354, 366); the Features case unmarshals directly
HandlerDecoder(kind) ==
    CASE kind = "Failure" -> "DecodeFailMsg"
      [] kind = "Success" -> "DecodeSuccessMsg"
      [] kind = "ResponseSkycoinAddress" -> "DecodeResponseSkycoinAddress"
      [] kind = "ResponseSkycoinSignMessage" -> "DecodeResponseSkycoinSignMessage"
      [] kind = "ResponseTransactionSign" -> "DecodeResponseTransactionSign"
      [] OTHER -> "proto.Unmarshal"

\* Respond, were a decoded Failure reported like a decode error (status 500)
Respond_failure500(msg) ==
    IF msg.kind \in PromptKinds
    THEN DataResponse(PromptName(msg.kind))
    ELSE IF msg.kind \in {"Success"} \cup TypedKinds /\ msg.decodes
    THEN DataResponse(msg.text)
    ELSE NewHTTPErrorResponse(StatusInternalServerError, msg.text)

\* the response of one non-recursive case of the switch
Respond(msg) ==
    CASE msg.kind \in PromptKinds ->
            DataResponse(PromptName(msg.kind))
      [] msg.kind = "Failure" ->
            LET d == DecodeFailMsg(msg) IN
            IF d.err # "none"
            THEN NewHTTPErrorResponse(StatusInternalServerError, ErrText(d.err))
            ELSE NewHTTPErrorResponse(StatusConflict, d.val)
      [] msg.kind = "Success" ->
            LET d == DecodeSuccessMsg(msg) IN
            IF d.err # "none"
            THEN NewHTTPErrorResponse(StatusUnauthorized, ErrText(d.err))
            ELSE DataResponse(d.val)
      [] msg.kind = "ResponseSkycoinAddress" ->
            LET d == DecodeResponseSkycoinAddress(msg) IN
            IF d.err # "none"
            THEN NewHTTPErrorResponse(StatusInternalServerError, ErrText(d.err))
            ELSE DataResponse(d.val)
      [] msg.kind = "Features" ->
            IF ~msg.decodes
            THEN NewHTTPErrorResponse(StatusInternalServerError, ErrText("unmarshal"))
            ELSE DataResponse(msg.text)
      [] msg.kind = "ResponseSkycoinSignMessage" ->
            LET d == DecodeResponseSkycoinSignMessage(msg) IN
            IF d.err # "none"
            THEN NewHTTPErrorResponse(StatusInternalServerError, ErrText(d.err))
            ELSE DataResponse(d.val)
      [] msg.kind = "ResponseTransactionSign" ->
            LET d == DecodeResponseTransactionSign(msg) IN
            IF d.err # "none"
            THEN NewHTTPErrorResponse(StatusInternalServerError, ErrText(d.err))
            ELSE DataResponse(d.val)
      [] OTHER ->
            NewHTTPErrorResponse(StatusInternalServerError,
                                 "recevied unexpected response message type")

\* HandlePrompt, were it to answer the prompt itself and go on to the reply
HandlePrompt_acks ==
    /\ h_pc = "call"
    /\ h_msg.kind \in PromptKinds
    /\ Len(h_chain) < MaxChain
    /\ \E reply \in Messages :
            /\ h_sent' = Append(h_sent, "PinMatrixAck")
            /\ h_msg' = reply
            /\ h_chain' = Append(h_chain, reply)
    /\ UNCHANGED << h_pc, h_resp, h_depth, h_ackErr, h_calls >>
    /\ UNCHANGED << a_vars, r_vars, c_vars, e_vars >>

\* cases PinMatrixRequest, PassphraseRequest, WordRequest (lines 284-295)
HandlePrompt ==
    /\ h_pc = "call"
    /\ h_msg.kind \in PromptKinds
    /\ h_resp' = Append(h_resp, writeHTTPResponse(Respond(h_msg)))
    /\ h_pc' = "done"
    /\ UNCHANGED << h_msg, h_chain, h_sent, h_depth, h_ackErr, h_calls >>
    /\ UNCHANGED << a_vars, r_vars, c_vars, e_vars >>

\* HandleButtonRequest, were it to recurse on the message it was called with
\* (the reply of ButtonAck dropped)
HandleButtonRequest_stale ==
    /\ h_pc = "call"
    /\ h_msg.kind = "ButtonRequest"
    /\ \E reply \in Messages :
            /\ Len(h_chain) < MaxChain
            /\ h_sent' = Append(h_sent, "ButtonAck")
            /\ h_chain' = Append(h_chain, reply)
            /\ h_depth' = h_depth + 1
            /\ UNCHANGED << h_pc, h_msg, h_resp, h_ackErr >>
    /\ UNCHANGED h_calls
    /\ UNCHANGED << a_vars, r_vars, c_vars, e_vars >>

\* HandleButtonRequest, were the nesting capped: at depth 2 it gives up with
\* a 500 response
HandleButtonRequest_capped ==
    /\ h_pc = "call"
    /\ h_msg.kind = "ButtonRequest"
    /\ IF h_depth >= 2
       THEN /\ h_resp' = Append(h_resp,
                    writeHTTPResponse(NewHTTPErrorResponse(StatusInternalServerError, "")))
            /\ h_pc' = "done"
            /\ UNCHANGED << h_msg, h_chain, h_sent, h_depth, h_ackErr >>
       ELSE \E reply \in Messages :
            /\ Len(h_chain) < MaxChain
            /\ h_sent' = Append(h_sent, "ButtonAck")
            /\ h_msg' = reply
            /\ h_chain' = Append(h_chain, reply)
            /\ h_depth' = h_depth + 1
            /\ UNCHANGED << h_pc, h_resp, h_ackErr >>
    /\ UNCHANGED h_calls
    /\ UNCHANGED << a_vars, r_vars, c_vars, e_vars >>

\* case ButtonRequest (lines 296-305): gateway.ButtonAck(), then either the
\* 401 response or the recursive call on the reply
HandleButtonRequest ==
    /\ h_pc = "call"
    /\ h_msg.kind = "ButtonRequest"
    /\ \/ \E wrote \in BOOLEAN :
            \* ButtonAck failed, before or after the ack reached the device
            /\ h_sent' = IF wrote THEN Append(h_sent, "ButtonAck") ELSE h_sent
            /\ h_resp' = Append(h_resp,
                    writeHTTPResponse(NewHTTPErrorResponse(StatusUnauthorized, AckErrText)))
            /\ h_ackErr' = TRUE
            /\ h_pc' = "done"
            /\ UNCHANGED << h_msg, h_chain, h_depth >>
       \/ \E reply \in Messages :
            /\ Len(h_chain) < MaxChain
            /\ h_sent' = Append(h_sent, "ButtonAck")
            /\ h_msg' = reply
            /\ h_chain' = Append(h_chain, reply)
            /\ h_depth' = h_depth + 1
            /\ UNCHANGED << h_pc, h_resp, h_ackErr >>
    /\ UNCHANGED h_calls
    /\ UNCHANGED << a_vars, r_vars, c_vars, e_vars >>

\* HandleTerminal, were the return after the response of a decoding error
\* missing in the Success case: the data response is written as well
HandleTerminal_noReturn ==
    /\ h_pc = "call"
    /\ h_msg.kind \in {"Failure", "Success"} \cup TypedKinds
    /\ h_resp' = IF h_msg.kind = "Success" /\ ~h_msg.decodes
                 THEN h_resp \o << writeHTTPResponse(Respond(h_msg)),
                                   writeHTTPResponse(DataResponse("")) >>
                 ELSE Append(h_resp, writeHTTPResponse(Respond(h_msg)))
    /\ h_calls' = IF HandlerDecoder(h_msg.kind) = "proto.Unmarshal"
                  THEN h_calls
                  ELSE Append(h_calls, [decoder |-> HandlerDecoder(h_msg.kind),
                                        kind    |-> h_msg.kind])
    /\ h_pc' = "done"
    /\ UNCHANGED << h_msg, h_chain, h_sent, h_depth, h_ackErr >>
    /\ UNCHANGED << a_vars, r_vars, c_vars, e_vars >>

\* cases Failure, Success and the typed responses (lines 306-375)
HandleTerminal ==
    /\ h_pc = "call"
    /\ h_msg.kind \in {"Failure", "Success"} \cup TypedKinds
    /\ h_resp' = Append(h_resp, writeHTTPResponse(Respond(h_msg)))
    /\ h_calls' = IF HandlerDecoder(h_msg.kind) = "proto.Unmarshal"
                  THEN h_calls
                  ELSE Append(h_calls, [decoder |-> HandlerDecoder(h_msg.kind),
                                        kind    |-> h_msg.kind])
    /\ h_pc' = "done"
    /\ UNCHANGED << h_msg, h_chain, h_sent, h_depth, h_ackErr >>
    /\ UNCHANGED << a_vars, r_vars, c_vars, e_vars >>

\* HandleDefault, were it to acknowledge the unexpected message to the device
HandleDefault_ack ==
    /\ h_pc = "call"
    /\ h_msg.kind \notin HandledKinds
    /\ h_sent' = Append(h_sent, "ButtonAck")
    /\ h_resp' = Append(h_resp, writeHTTPResponse(Respond(h_msg)))
    /\ h_pc' = "done"
    /\ UNCHANGED << h_msg, h_chain, h_depth, h_ackErr, h_calls >>
    /\ UNCHANGED << a_vars, r_vars, c_vars, e_vars >>

\* default case (lines 376-378)
HandleDefault ==
    /\ h_pc = "call"
    /\ h_msg.kind \notin HandledKinds
    /\ h_resp' = Append(h_resp, writeHTTPResponse(Respond(h_msg)))
    /\ h_pc' = "done"
    /\ UNCHANGED << h_msg, h_chain, h_sent, h_depth, h_ackErr, h_calls >>
    /\ UNCHANGED << a_vars, r_vars, c_vars, e_vars >>

(***************************************************************************)
(* Spec: one top-level call of HandleFirmwareResponseMessages with any     *)
(* message the gateway returned.                                           *)
(***************************************************************************)
Init ==
    /\ h_pc = "call"
    /\ h_msg \in Messages
    /\ h_chain = << h_msg >>
    /\ h_sent = << >>
    /\ h_resp = << >>
    /\ h_depth = 0
    /\ h_ackErr = FALSE
    /\ h_calls = << >>
    /\ AddressGenIdle /\ RecoveryIdle /\ CodecIdle /\ ExtraIdle

\* HandleFirmwareResponseMessages: the switch on msg.Kind
Next ==
    \/ HandlePrompt
    \/ HandleButtonRequest
    \/ HandleTerminal
    \/ HandleDefault

Spec == Init /\ [][Next]_vars

\* the handler's own code runs on: once the message at hand is not a
\* ButtonRequest the case that answers it is executed.  Whether and what
\* the device answers to a ButtonAck is left open.
FairHandler == WF_vars(HandlePrompt \/ HandleTerminal \/ HandleDefault)

SpecFair == Spec /\ FairHandler


(***************************************************************************)
(* The device as the CLI sessions see it: every device.X() call is one     *)
(* send; it returns an error, or the next reply of the device.             *)
(***************************************************************************)
\* the replies a device gives a CLI session: every kind; payload variants
\* for the two kinds addressGen decodes and for Success
SessionReplies ==
    {m \in Messages :
        \/ m.kind \in {"Failure", "ResponseSkycoinAddress"}
        \/ (m.decodes /\ m.text = "")
        \/ (m.kind = "Success" /\ m.decodes)}

\* log.Error(err) of a failed device call
IOError == [kind |-> "ioError", text |-> "device i/o error"]

\* log.Error(err) of a decoder error
DecodeError(err) == [kind |-> "decodeError", text |-> err]

(***************************************************************************)
(* addressGenCmd action (http.go 482-552).                                 *)
(***************************************************************************)
\* lines 494-498: msg, err := device.AddressGen(...)
AG_Start ==
    /\ a_pc = "start"
    /\ a_sent' = Append(a_sent, "AddressGen")
    /\ \/ /\ a_out' = IOError
          /\ a_pc' = "done"
          /\ UNCHANGED << a_msg, a_replies >>
       \/ \E reply \in SessionReplies :
            /\ a_msg' = reply
            /\ a_replies' = Append(a_replies, reply)
            /\ a_pc' = "loop"
            /\ UNCHANGED a_out
    /\ UNCHANGED << a_stdin, a_spins, a_calls >>
    /\ UNCHANGED << h_vars, r_vars, c_vars, e_vars >>

\* lines 501-511: the PinMatrixRequest branch.  The reply of PinMatrixAck is
\* bound to pinAckResponse and logged; msg is not assigned.
AG_Pin ==
    /\ a_pc = "loop"
    /\ a_msg.kind = "PinMatrixRequest"
    /\ a_stdin' = Append(a_stdin, "pin")
    /\ a_sent' = Append(a_sent, "PinMatrixAck")
    /\ \/ /\ a_out' = IOError
          /\ a_pc' = "done"
          /\ UNCHANGED a_replies
       \/ \E reply \in SessionReplies :
            /\ Len(a_sent) < MaxSends
            /\ a_replies' = Append(a_replies, reply)
            /\ UNCHANGED << a_pc, a_out >>
    /\ UNCHANGED << a_msg, a_spins, a_calls >>
    /\ UNCHANGED << h_vars, r_vars, c_vars, e_vars >>

\* lines 513-524: the PassphraseRequest branch.  The reply of PassphraseAck
\* is bound to passphraseAckResponse and logged; msg is not assigned.
AG_Passphrase ==
    /\ a_pc = "loop"
    /\ a_msg.kind = "PassphraseRequest"
    /\ a_stdin' = Append(a_stdin, "passphrase")
    /\ a_sent' = Append(a_sent, "PassphraseAck")
    /\ \/ /\ a_out' = IOError
          /\ a_pc' = "done"
          /\ UNCHANGED a_replies
       \/ \E reply \in SessionReplies :
            /\ Len(a_sent) < MaxSends
            /\ a_replies' = Append(a_replies, reply)
            /\ UNCHANGED << a_pc, a_out >>
    /\ UNCHANGED << a_msg, a_spins, a_calls >>
    /\ UNCHANGED << h_vars, r_vars, c_vars, e_vars >>

\* AG_Button, were the reply of ButtonAck dropped like that of PinMatrixAck
AG_Button_dropsReply ==
    /\ a_pc = "loop"
    /\ a_msg.kind = "ButtonRequest"
    /\ a_sent' = Append(a_sent, "ButtonAck")
    /\ \/ /\ a_out' = IOError
          /\ a_pc' = "done"
          /\ UNCHANGED a_replies
       \/ \E reply \in SessionReplies :
            /\ Len(a_sent) < MaxSends
            /\ a_replies' = Append(a_replies, reply)
            /\ UNCHANGED << a_pc, a_out >>
    /\ UNCHANGED << a_msg, a_stdin, a_spins, a_calls >>
    /\ UNCHANGED << h_vars, r_vars, c_vars, e_vars >>

\* lines 526-533: the ButtonRequest branch: msg, err = device.ButtonAck()
AG_Button ==
    /\ a_pc = "loop"
    /\ a_msg.kind = "ButtonRequest"
    /\ a_sent' = Append(a_sent, "ButtonAck")
    /\ \/ /\ a_out' = IOError
          /\ a_pc' = "done"
          /\ UNCHANGED << a_msg, a_replies >>
       \/ \E reply \in SessionReplies :
            /\ Len(a_sent) < MaxSends
            /\ a_msg' = reply
            /\ a_replies' = Append(a_replies, reply)
            /\ UNCHANGED << a_pc, a_out >>
    /\ UNCHANGED << a_stdin, a_spins, a_calls >>
    /\ UNCHANGED << h_vars, r_vars, c_vars, e_vars >>

\* lines 500-534: an iteration on a kind that is neither a loop exit nor one
\* of the three branches: the body does nothing and the loop condition is
\* evaluated again on the same msg
AG_Spin ==
    /\ a_pc = "loop"
    /\ a_msg.kind \notin {"ResponseSkycoinAddress", "Failure", "PinMatrixRequest",
                          "PassphraseRequest", "ButtonRequest"}
    /\ a_spins < MaxSpins
    /\ a_spins' = a_spins + 1
    /\ UNCHANGED << a_pc, a_msg, a_replies, a_sent, a_stdin, a_out, a_calls >>
    /\ UNCHANGED << h_vars, r_vars, c_vars, e_vars >>

\* AG_Decode, were the loop left on a message of any kind
AG_Decode_anyKind ==
    /\ a_pc = "loop"
    /\ a_out' = IF a_msg.kind = "ResponseSkycoinAddress"
                THEN LET d == DecodeResponseSkycoinAddress(a_msg) IN
                     IF d.err # "none" THEN DecodeError(d.err)
                     ELSE [kind |-> "addresses", text |-> d.val]
                ELSE LET d == DecodeFailMsg(a_msg) IN
                     IF d.err # "none" THEN DecodeError(d.err)
                     ELSE [kind |-> "failure", text |-> d.val]
    /\ a_calls' = Append(a_calls,
                  [decoder |-> IF a_msg.kind = "ResponseSkycoinAddress"
                               THEN "DecodeResponseSkycoinAddress"
                               ELSE "DecodeFailMsg",
                   kind    |-> a_msg.kind])
    /\ a_pc' = "done"
    /\ UNCHANGED << a_msg, a_replies, a_sent, a_stdin, a_spins >>
    /\ UNCHANGED << h_vars, r_vars, c_vars, e_vars >>

\* lines 500 and 536-551: the loop exits on ResponseSkycoinAddress or
\* Failure, and the message is decoded and printed
AG_Decode ==
    /\ a_pc = "loop"
    /\ a_msg.kind \in {"ResponseSkycoinAddress", "Failure"}
    /\ a_out' = IF a_msg.kind = "ResponseSkycoinAddress"
                THEN LET d == DecodeResponseSkycoinAddress(a_msg) IN
                     IF d.err # "none" THEN DecodeError(d.err)
                     ELSE [kind |-> "addresses", text |-> d.val]
                ELSE LET d == DecodeFailMsg(a_msg) IN
                     IF d.err # "none" THEN DecodeError(d.err)
                     ELSE [kind |-> "failure", text |-> d.val]
    /\ a_calls' = Append(a_calls,
                  [decoder |-> IF a_msg.kind = "ResponseSkycoinAddress"
                               THEN "DecodeResponseSkycoinAddress"
                               ELSE "DecodeFailMsg",
                   kind    |-> a_msg.kind])
    /\ a_pc' = "done"
    /\ UNCHANGED << a_msg, a_replies, a_sent, a_stdin, a_spins >>
    /\ UNCHANGED << h_vars, r_vars, c_vars, e_vars >>

InitAddressGen ==
    /\ a_pc = "start"
    /\ a_msg = NoMsg
    /\ a_replies = << >>
    /\ a_sent = << >>
    /\ a_stdin = << >>
    /\ a_out = NoOut
    /\ a_spins = 0
    /\ a_calls = << >>
    /\ HandlerIdle /\ RecoveryIdle /\ CodecIdle /\ ExtraIdle

NextAddressGen ==
    \/ AG_Start
    \/ AG_Pin
    \/ AG_Passphrase
    \/ AG_Button
    \/ AG_Spin
    \/ AG_Decode

SpecAddressGen == InitAddressGen /\ [][NextAddressGen]_vars

\* either session: a run of HandleFirmwareResponseMessages or a run of the
\* addressGen action
InitSessions == Init \/ InitAddressGen

NextSessions == Next \/ NextAddressGen

SpecSessions == InitSessions /\ [][NextSessions]_vars

(***************************************************************************)
(* recoveryCmd action (http.go 594-636).                                   *)
(***************************************************************************)
\* lines 603-607: msg, err := device.Recovery(...)
R_Start ==
    /\ r_pc = "start"
    /\ r_sent' = Append(r_sent, "Recovery")
    /\ \/ /\ r_out' = IOError
          /\ r_pc' = "done"
          /\ UNCHANGED << r_msg, r_replies >>
       \/ \E reply \in SessionReplies :
            /\ r_msg' = reply
            /\ r_replies' = Append(r_replies, reply)
            /\ r_pc' = "words"
            /\ UNCHANGED r_out
    /\ UNCHANGED r_stdin
    /\ UNCHANGED << h_vars, a_vars, c_vars, e_vars >>

\* lines 609-618: one iteration of the WordRequest loop
R_Word ==
    /\ r_pc = "words"
    /\ r_msg.kind = "WordRequest"
    /\ r_stdin' = Append(r_stdin, "word")
    /\ r_sent' = Append(r_sent, "WordAck")
    /\ \/ /\ r_out' = IOError
          /\ r_pc' = "done"
          /\ UNCHANGED << r_msg, r_replies >>
       \/ \E reply \in SessionReplies :
            /\ Len(r_sent) < MaxSends
            /\ r_msg' = reply
            /\ r_replies' = Append(r_replies, reply)
            /\ UNCHANGED << r_pc, r_out >>
    /\ UNCHANGED << h_vars, a_vars, c_vars, e_vars >>

\* lines 620-627: after the loop, the single if on ButtonRequest
R_Button ==
    /\ r_pc = "words"
    /\ r_msg.kind = "ButtonRequest"
    /\ r_sent' = Append(r_sent, "ButtonAck")
    /\ \/ /\ r_out' = IOError
          /\ r_pc' = "done"
          /\ UNCHANGED << r_msg, r_replies >>
       \/ \E reply \in SessionReplies :
            /\ Len(r_sent) < MaxSends
            /\ r_msg' = reply
            /\ r_replies' = Append(r_replies, reply)
            /\ r_pc' = "decode"
            /\ UNCHANGED r_out
    /\ UNCHANGED r_stdin
    /\ UNCHANGED << h_vars, a_vars, c_vars, e_vars >>

\* lines 629-635: DecodeSuccessOrFailMsg on whatever msg now is
R_Decode ==
    /\ \/ r_pc = "decode"
       \/ (r_pc = "words" /\ r_msg.kind \notin {"WordRequest", "ButtonRequest"})
    /\ r_out' = LET d == DecodeSuccessOrFailMsg(r_msg) IN
                IF d.err # "none" THEN DecodeError(d.err)
                ELSE [kind |-> "text", text |-> d.val]
    /\ r_pc' = "done"
    /\ UNCHANGED << r_msg, r_replies, r_sent, r_stdin >>
    /\ UNCHANGED << h_vars, a_vars, c_vars, e_vars >>

InitRecovery ==
    /\ r_pc = "start"
    /\ r_msg = NoMsg
    /\ r_replies = << >>
    /\ r_sent = << >>
    /\ r_stdin = << >>
    /\ r_out = NoOut
    /\ HandlerIdle /\ AddressGenIdle /\ CodecIdle /\ ExtraIdle

NextRecovery ==
    \/ R_Start
    \/ R_Word
    \/ R_Button
    \/ R_Decode

SpecRecovery == InitRecovery /\ [][NextRecovery]_vars

(***************************************************************************)
(* makeSkyWalletMessage (http.go 795-817) and the frame decoder.           *)
(* Bytes are the integers 0..255; a chunk is a sequence of 64 bytes.       *)
(***************************************************************************)
\* '?', the first byte of every chunk (line 810)
Marker == 63
\* '#', written twice as the magic (line 797)
Magic == 35
\* '\n' (line 800)
Newline == 10
\* bytes of the message copied into one chunk (line 811)
ChunkData == 63
\* capacity bytes.Buffer gives its first small allocation: the buffer the
\* first binaryWrite of new(bytes.Buffer) creates (line 796-797)
SmallBufferSize == 64

\* binary.BigEndian encoding of a uint16 and of a uint32
BE16(n) == << (n \div 256) % 256, n % 256 >>

BE32(n) == << (n \div 16777216) % 256, (n \div 65536) % 256,
              (n \div 256) % 256, n % 256 >>

\* the contents of the buffer message after lines 797-803; uint16(msgID)
\* wraps at 2^16, and uint32(len(data)) is len(data) for every length a
\* payload sequence of the model can have
FrameBytes(data, msgID) ==
    << Magic, Magic >> \o BE16(msgID % 65536) \o BE32(Len(data))
        \o << Newline >> \o (IF Len(data) > 0 THEN Tail(data) ELSE << >>)

\* runtime size classes an allocation of 128..512 bytes is rounded up to
RoundUpSize(n) ==
    LET classes == {128, 144, 160, 176, 192, 208, 224, 240, 256,
                    288, 320, 352, 384, 416, 448, 480, 512}
    IN  CHOOSE c \in classes : c >= n /\ \A d \in classes : d >= n => c <= d

\* cap(message.Bytes()) at line 811.  The four header writes (9 bytes) fit
\* the small buffer; the write of data[1:] either fits it too or makes
\* bytes.Buffer reallocate, and how much it then allocates depends on the
\* toolchain: 2*cap+n bytes ("makeSlice"), or max(len+n, 2*cap) rounded up
\* to a size class ("growSlice").
BufferCap(frameLen) ==
    IF frameLen <= SmallBufferSize
    THEN SmallBufferSize
    ELSE IF c_build = "makeSlice"
         THEN 2 * SmallBufferSize + (frameLen - 9)
         ELSE RoundUpSize(IF frameLen < 2 * SmallBufferSize
                          THEN 2 * SmallBufferSize ELSE frameLen)

\* number of iterations of the loop at line 808: messageLen starts at
\* message.Len() and drops by 63 while it is > 0
ChunkCount(frameLen) == (frameLen + ChunkData - 1) \div ChunkData

\* the value makeSkyWalletMessage returns, or the run-time panic of the
\* slice expression message.Bytes()[63*i:63*(i+1)] when 63*(i+1) exceeds
\* the capacity of the slice.  Bytes between len and cap are zero.
makeSkyWalletMessage(data, msgID) ==
    LET frame == FrameBytes(data, msgID)
        n     == ChunkCount(Len(frame))
    IN  IF \E i \in 0..(n - 1) : ChunkData * (i + 1) > BufferCap(Len(frame))
        THEN [panic |-> TRUE, chunks |-> << >>]
        ELSE [panic |-> FALSE,
              chunks |-> [i \in 1..n |->
                  << Marker >> \o
                  [j \in 1..ChunkData |->
                      IF ChunkData * (i - 1) + j <= Len(frame)
                      THEN frame[ChunkData * (i - 1) + j]
                      ELSE 0]]]

\* the packets with the marker of each stripped, concatenated in order
RECURSIVE StripMarkers(_)
StripMarkers(chunks) ==
    IF chunks = << >> THEN << >>
    ELSE Tail(Head(chunks)) \o StripMarkers(Tail(chunks))

\* the decoder: strip the marker of each packet, read magic, kind and
\* length, then collect length payload bytes
DecodeStream(chunks) ==
    LET stream == StripMarkers(chunks)
        length == IF Len(stream) >= 8
                  THEN stream[5] * 16777216 + stream[6] * 65536
                       + stream[7] * 256 + stream[8]
                  ELSE 0
    IN  IF Len(stream) < 8
        THEN [err |-> "Truncated", kind |-> 0, data |-> << >>]
        ELSE IF stream[1] # Magic \/ stream[2] # Magic
        THEN [err |-> "BadMagic", kind |-> 0, data |-> << >>]
        ELSE IF Len(stream) < 8 + length
        THEN [err |-> "Truncated", kind |-> 0, data |-> << >>]
        ELSE [err |-> "none",
              kind |-> stream[3] * 256 + stream[4],
              data |-> SubSeq(stream, 9, 8 + length)]

\* payloads: every length up to MaxPayloadLen, with bytes that differ from
\* position to position; seed 3 gives a payload whose first byte is '\n'
PayloadOf(len, seed) == [i \in 1..len |-> (seed + 7 * i) % 256]

Payloads == {PayloadOf(len, seed) : len \in 0..MaxPayloadLen, seed \in {3, 200}}

\* message ids, one of them above 255
KindIds == {2, 26, 300}

\* bytes.Buffer growth policies of the toolchains the package builds with
Builds == {"makeSlice", "growSlice"}

\* chunks := makeSkyWalletMessage(data, msgID)
Encode ==
    /\ c_pc = "input"
    /\ c_out' = makeSkyWalletMessage(c_payload, c_kind)
    /\ c_pc' = "encoded"
    /\ UNCHANGED << c_kind, c_payload, c_build, c_dec >>
    /\ UNCHANGED << h_vars, a_vars, r_vars, e_vars >>

\* the receiver decodes the chunks that were returned
Decode ==
    /\ c_pc = "encoded"
    /\ ~c_out.panic
    /\ c_dec' = DecodeStream(c_out.chunks)
    /\ c_pc' = "decoded"
    /\ UNCHANGED << c_kind, c_payload, c_build, c_out >>
    /\ UNCHANGED << h_vars, a_vars, r_vars, e_vars >>

InitCodec ==
    /\ c_pc = "input"
    /\ c_kind \in KindIds
    /\ c_payload \in Payloads
    /\ c_build \in Builds
    /\ c_out = [panic |-> FALSE, chunks |-> << >>]
    /\ c_dec = [err |-> "none", kind |-> 0, data |-> << >>]
    /\ HandlerIdle /\ AddressGenIdle /\ RecoveryIdle /\ ExtraIdle

NextCodec ==
    \/ Encode
    \/ Decode

SpecCodec == InitCodec /\ [][NextCodec]_vars

(***************************************************************************)
(* Driver.GetDevice, getEmulatorDevice and getUsbDevice (http.go 712-786). *)
(***************************************************************************)
\* most devices an enumeration returns
MaxInfos == 2

\* DeviceType values (lines 672-679)
DeviceTypeEmulator == 1
DeviceTypeUSB == 2
DeviceTypeInvalid == 3

\* the values drv.deviceType is given: the three named ones and the zero value
DeviceTypes == {0, DeviceTypeEmulator, DeviceTypeUSB, DeviceTypeInvalid}

\* the bound of the connect loop (line 775)
MaxTries == 3

\* what b.Enumerate() can return as infos: up to MaxInfos distinct paths
InfoLists ==
    {l \in UNION {[1..n -> 1..MaxInfos] : n \in 0..MaxInfos} :
        \A i, j \in DOMAIN l : i # j => l[i] # l[j]}

\* the events the connect loop leaves behind
ConnectEvent(path, ok) == [op |-> "connect", path |-> path, ok |-> ok]

SleepEvent == [op |-> "sleep", path |-> 0, ok |-> TRUE]

\* lines 715-717: case DeviceTypeEmulator: net.Dial("udp", ...)
GD_Emulator ==
    /\ g_pc = "start"
    /\ g_type = DeviceTypeEmulator
    /\ \/ g_dev' = [kind |-> "emulator", path |-> 0] /\ g_err' = "nil"
       \/ g_dev' = NilDev /\ g_err' = "dial error"
    /\ g_pc' = "check"
    /\ UNCHANGED << g_type, g_infos, g_enumErr, g_tries, g_events >>
    /\ UNCHANGED << h_vars, a_vars, r_vars, c_vars, s_vars, d_vars, v_vars, p_vars,
                 w_vars >>

\* lines 718-719: case DeviceTypeUSB: getUsbDevice() is entered
GD_Usb ==
    /\ g_pc = "start"
    /\ g_type = DeviceTypeUSB
    /\ g_pc' = "webusb"
    /\ UNCHANGED << g_type, g_infos, g_enumErr, g_tries, g_events, g_dev, g_err >>
    /\ UNCHANGED << h_vars, a_vars, r_vars, c_vars, s_vars, d_vars, v_vars, p_vars,
                 w_vars >>

\* lines 715-720: no case of the switch matches; dev and err stay nil
GD_Other ==
    /\ g_pc = "start"
    /\ g_type \notin {DeviceTypeEmulator, DeviceTypeUSB}
    /\ g_pc' = "check"
    /\ UNCHANGED << g_type, g_infos, g_enumErr, g_tries, g_events, g_dev, g_err >>
    /\ UNCHANGED << h_vars, a_vars, r_vars, c_vars, s_vars, d_vars, v_vars, p_vars,
                 w_vars >>

\* lines 757-761: usb.InitWebUSB()
U_InitWebUSB ==
    /\ g_pc = "webusb"
    /\ \/ g_pc' = "hidapi" /\ UNCHANGED << g_dev, g_err >>
       \/ g_pc' = "check" /\ g_dev' = NilDev /\ g_err' = "webusb error"
    /\ UNCHANGED << g_type, g_infos, g_enumErr, g_tries, g_events >>
    /\ UNCHANGED << h_vars, a_vars, r_vars, c_vars, s_vars, d_vars, v_vars, p_vars,
                 w_vars >>

\* lines 762-767: usb.InitHIDAPI(), usb.Init
U_InitHIDAPI ==
    /\ g_pc = "hidapi"
    /\ \/ g_pc' = "enumerate" /\ UNCHANGED << g_dev, g_err >>
       \/ g_pc' = "check" /\ g_dev' = NilDev /\ g_err' = "hidapi error"
    /\ UNCHANGED << g_type, g_infos, g_enumErr, g_tries, g_events >>
    /\ UNCHANGED << h_vars, a_vars, r_vars, c_vars, s_vars, d_vars, v_vars, p_vars,
                 w_vars >>

\* lines 769-774: infos, err = b.Enumerate(); return nil, err when there
\* is no device; tries := 0
U_Enumerate ==
    /\ g_pc = "enumerate"
    /\ \E infos \in InfoLists, e \in {"nil", "enumerate error"} :
            /\ g_infos' = infos
            /\ g_enumErr' = e
            /\ IF Len(infos) <= 0
               THEN g_pc' = "check" /\ g_dev' = NilDev /\ g_err' = e
               ELSE g_pc' = "connect" /\ UNCHANGED << g_dev, g_err >>
    /\ g_tries' = 0
    /\ UNCHANGED << g_type, g_events >>
    /\ UNCHANGED << h_vars, a_vars, r_vars, c_vars, s_vars, d_vars, v_vars, p_vars,
                 w_vars >>

\* U_Connect, were a failed attempt retried without the delay
U_Connect_noSleep ==
    /\ g_pc = "connect"
    /\ g_tries < MaxTries
    /\ \/ /\ g_events' = Append(g_events, ConnectEvent(g_infos[1], FALSE))
          /\ g_tries' = g_tries + 1
          /\ UNCHANGED << g_pc, g_dev, g_err >>
       \/ /\ g_events' = Append(g_events, ConnectEvent(g_infos[1], TRUE))
          /\ g_dev' = [kind |-> "usb", path |-> g_infos[1]]
          /\ g_err' = "nil"
          /\ g_pc' = "check"
          /\ UNCHANGED g_tries
    /\ UNCHANGED << g_type, g_infos, g_enumErr >>
    /\ UNCHANGED << h_vars, a_vars, r_vars, c_vars, s_vars, d_vars, v_vars, p_vars,
                 w_vars >>

\* lines 775-784: one iteration of for tries < 3: dev, err := b.Connect(
\* infos[0].Path) declares a dev and an err of its own; on failure log,
\* tries++ and time.Sleep, on success return dev, err
U_Connect ==
    /\ g_pc = "connect"
    /\ g_tries < MaxTries
    /\ \/ /\ g_events' = g_events \o << ConnectEvent(g_infos[1], FALSE), SleepEvent >>
          /\ g_tries' = g_tries + 1
          /\ UNCHANGED << g_pc, g_dev, g_err >>
       \/ /\ g_events' = Append(g_events, ConnectEvent(g_infos[1], TRUE))
          /\ g_dev' = [kind |-> "usb", path |-> g_infos[1]]
          /\ g_err' = "nil"
          /\ g_pc' = "check"
          /\ UNCHANGED g_tries
    /\ UNCHANGED << g_type, g_infos, g_enumErr >>
    /\ UNCHANGED << h_vars, a_vars, r_vars, c_vars, s_vars, d_vars, v_vars, p_vars,
                 w_vars >>

\* line 785: the loop ended; return nil, err with the function's own err,
\* the one b.Enumerate() assigned
U_Exhausted ==
    /\ g_pc = "connect"
    /\ ~(g_tries < MaxTries)
    /\ g_dev' = NilDev
    /\ g_err' = g_enumErr
    /\ g_pc' = "check"
    /\ UNCHANGED << g_type, g_infos, g_enumErr, g_tries, g_events >>
    /\ UNCHANGED << h_vars, a_vars, r_vars, c_vars, s_vars, d_vars, v_vars, p_vars,
                 w_vars >>

\* GD_Return, were dev and err returned as the switch left them
GD_Return_noCheck ==
    /\ g_pc = "check"
    /\ g_pc' = "done"
    /\ UNCHANGED << g_type, g_infos, g_enumErr, g_tries, g_events, g_dev, g_err >>
    /\ UNCHANGED << h_vars, a_vars, r_vars, c_vars, s_vars, d_vars, v_vars, p_vars,
                 w_vars >>

\* lines 722-725: the nil/nil check and the return of GetDevice
GD_Return ==
    /\ g_pc = "check"
    /\ g_err' = IF g_dev = NilDev /\ g_err = "nil" THEN "No device connected" ELSE g_err
    /\ g_pc' = "done"
    /\ UNCHANGED << g_type, g_infos, g_enumErr, g_tries, g_events, g_dev >>
    /\ UNCHANGED << h_vars, a_vars, r_vars, c_vars, s_vars, d_vars, v_vars, p_vars,
                 w_vars >>

InitDevice ==
    /\ g_pc = "start"
    /\ g_type \in DeviceTypes
    /\ g_infos = << >>
    /\ g_enumErr = "nil"
    /\ g_tries = 0
    /\ g_events = << >>
    /\ g_dev = NilDev
    /\ g_err = "nil"
    /\ HandlerIdle /\ AddressGenIdle /\ RecoveryIdle /\ CodecIdle
    /\ SendIdle /\ DecodersIdle /\ ServerIdle /\ SetPinIdle /\ WriteIdle

NextDevice ==
    \/ GD_Emulator
    \/ GD_Usb
    \/ GD_Other
    \/ U_InitWebUSB
    \/ U_InitHIDAPI
    \/ U_Enumerate
    \/ U_Connect
    \/ U_Exhausted
    \/ GD_Return

SpecDevice == InitDevice /\ [][NextDevice]_vars

(***************************************************************************)
(* sendToDeviceNoAnswer and sendToDevice (http.go 728-748).                *)
(***************************************************************************)
\* most packets handed to one call
MaxChunks == 3

\* the packets are told apart by an identifier standing for their 64 bytes
ChunkIds == {"p", "q"}

ChunkLists == UNION {[1..n -> ChunkIds] : n \in 0..MaxChunks}

\* S_Write, were a write error ignored and the loop continued
S_Write_continues ==
    /\ s_pc = "write"
    /\ s_i < Len(s_chunks)
    /\ \E ok \in BOOLEAN :
          s_log' = Append(s_log, [op |-> "write", idx |-> s_i + 1,
                                  chunk |-> s_chunks[s_i + 1], ok |-> ok])
    /\ s_i' = s_i + 1
    /\ UNCHANGED << s_pc, s_fn, s_chunks, s_ret >>
    /\ UNCHANGED << h_vars, a_vars, r_vars, c_vars, g_vars, d_vars, v_vars, p_vars,
                 w_vars >>

\* lines 729-734 and 740-745: one iteration of for _, element := range
\* chunks: dev.Write(element[:]) and the return on its error
S_Write ==
    /\ s_pc = "write"
    /\ s_i < Len(s_chunks)
    /\ \E ok \in BOOLEAN :
          /\ s_log' = Append(s_log, [op |-> "write", idx |-> s_i + 1,
                                     chunk |-> s_chunks[s_i + 1], ok |-> ok])
          /\ IF ok
             THEN s_i' = s_i + 1 /\ UNCHANGED << s_pc, s_ret >>
             ELSE /\ s_ret' = [err |-> "write error", msg |-> FALSE]
                  /\ s_pc' = "done"
                  /\ UNCHANGED s_i
    /\ UNCHANGED << s_fn, s_chunks >>
    /\ UNCHANGED << h_vars, a_vars, r_vars, c_vars, g_vars, d_vars, v_vars, p_vars,
                 w_vars >>

\* line 735: sendToDeviceNoAnswer returns nil after the loop
S_ReturnNil ==
    /\ s_pc = "write"
    /\ s_fn = "sendToDeviceNoAnswer"
    /\ s_i = Len(s_chunks)
    /\ s_ret' = [err |-> "nil", msg |-> FALSE]
    /\ s_pc' = "done"
    /\ UNCHANGED << s_fn, s_chunks, s_i, s_log >>
    /\ UNCHANGED << h_vars, a_vars, r_vars, c_vars, g_vars, d_vars, v_vars, p_vars,
                 w_vars >>

\* S_Read, were a failed read of the reply tried once more
S_Read_again ==
    /\ s_pc = "write"
    /\ s_fn = "sendToDevice"
    /\ s_i = Len(s_chunks)
    /\ \E ok \in BOOLEAN :
          /\ s_log' = IF ok
                      THEN Append(s_log, [op |-> "read", idx |-> 0, chunk |-> "", ok |-> TRUE])
                      ELSE s_log \o << [op |-> "read", idx |-> 0, chunk |-> "", ok |-> FALSE],
                                       [op |-> "read", idx |-> 0, chunk |-> "", ok |-> TRUE] >>
          /\ s_ret' = [err |-> "nil", msg |-> TRUE]
    /\ s_pc' = "done"
    /\ UNCHANGED << s_fn, s_chunks, s_i >>
    /\ UNCHANGED << h_vars, a_vars, r_vars, c_vars, g_vars, d_vars, v_vars, p_vars,
                 w_vars >>

\* lines 746-747: sendToDevice, after the loop: _, err := msg.ReadFrom(dev)
\* and return msg, err
S_Read ==
    /\ s_pc = "write"
    /\ s_fn = "sendToDevice"
    /\ s_i = Len(s_chunks)
    /\ \E ok \in BOOLEAN :
          /\ s_log' = Append(s_log, [op |-> "read", idx |-> 0, chunk |-> "", ok |-> ok])
          /\ s_ret' = [err |-> IF ok THEN "nil" ELSE "read error", msg |-> ok]
    /\ s_pc' = "done"
    /\ UNCHANGED << s_fn, s_chunks, s_i >>
    /\ UNCHANGED << h_vars, a_vars, r_vars, c_vars, g_vars, d_vars, v_vars, p_vars,
                 w_vars >>

InitSend ==
    /\ s_pc = "write"
    /\ s_fn \in {"sendToDeviceNoAnswer", "sendToDevice"}
    /\ s_chunks \in ChunkLists
    /\ s_i = 0
    /\ s_log = << >>
    /\ s_ret = [err |-> "nil", msg |-> FALSE]
    /\ HandlerIdle /\ AddressGenIdle /\ RecoveryIdle /\ CodecIdle
    /\ DeviceIdle /\ DecodersIdle /\ ServerIdle /\ SetPinIdle /\ WriteIdle

NextSend ==
    \/ S_Write
    \/ S_ReturnNil
    \/ S_Read

SpecSend == InitSend /\ [][NextSend]_vars

(***************************************************************************)
(* The response decoders called directly on a message (http.go 832-911).   *)
(* d_res collects, per decoder called, what it returned for d_msg.         *)
(***************************************************************************)
D_Call(decoder, res) ==
    /\ d_msg # NoMsg
    /\ \A r \in d_res : r.decoder # decoder
    /\ d_res' = d_res \cup {[decoder |-> decoder, res |-> res]}
    /\ UNCHANGED d_msg
    /\ UNCHANGED << h_vars, a_vars, r_vars, c_vars, g_vars, s_vars, v_vars, p_vars,
                 w_vars >>

D_DecodeSuccessOrFailMsg == D_Call("DecodeSuccessOrFailMsg", DecodeSuccessOrFailMsg(d_msg))

D_DecodeSuccessMsg == D_Call("DecodeSuccessMsg", DecodeSuccessMsg(d_msg))

D_DecodeFailMsg == D_Call("DecodeFailMsg", DecodeFailMsg(d_msg))

D_DecodeResponseSkycoinAddress ==
    D_Call("DecodeResponseSkycoinAddress", DecodeResponseSkycoinAddress(d_msg))

D_DecodeResponseTransactionSign ==
    D_Call("DecodeResponseTransactionSign", DecodeResponseTransactionSign(d_msg))

D_DecodeResponseSkycoinSignMessage ==
    D_Call("DecodeResponseSkycoinSignMessage", DecodeResponseSkycoinSignMessage(d_msg))

InitDecoders ==
    /\ d_msg \in Messages
    /\ d_res = {}
    /\ HandlerIdle /\ AddressGenIdle /\ RecoveryIdle /\ CodecIdle
    /\ DeviceIdle /\ SendIdle /\ ServerIdle /\ SetPinIdle /\ WriteIdle

NextDecoders ==
    \/ D_DecodeSuccessOrFailMsg
    \/ D_DecodeSuccessMsg
    \/ D_DecodeFailMsg
    \/ D_DecodeResponseSkycoinAddress
    \/ D_DecodeResponseTransactionSign
    \/ D_DecodeResponseSkycoinSignMessage

SpecDecoders == InitDecoders /\ [][NextDecoders]_vars

(***************************************************************************)
(* Server.Serve and Server.Shutdown (http.go 131-155).  One goroutine      *)
(* calls Serve at most once; NumShutdown goroutines each call Shutdown at  *)
(* most once, in any interleaving.  v_nil: the *Server is nil.             *)
(***************************************************************************)
\* number of goroutines that call Shutdown
NumShutdown == 3

Callers == 1..NumShutdown

\* line 133 and the entry of line 135: defer close(s.done) is registered
\* and s.server.Serve(s.listener) starts accepting
V_Serve ==
    /\ ~v_nil
    /\ v_serve = "idle"
    /\ v_serve' = "accepting"
    /\ UNCHANGED << v_nil, v_listener, v_done, v_shut, v_closes >>
    /\ UNCHANGED << h_vars, a_vars, r_vars, c_vars, g_vars, s_vars, d_vars, p_vars,
                 w_vars >>

\* line 135: Accept on the closed listener fails, s.server.Serve returns
V_AcceptClosed ==
    /\ v_serve = "accepting"
    /\ v_listener = "closed"
    /\ v_serve' = "unwinding"
    /\ UNCHANGED << v_nil, v_listener, v_done, v_shut, v_closes >>
    /\ UNCHANGED << h_vars, a_vars, r_vars, c_vars, g_vars, s_vars, d_vars, p_vars,
                 w_vars >>

\* line 135: Accept fails for another reason while the listener is open;
\* s.server.Serve closes the listener as it returns the error
V_AcceptFails ==
    /\ v_serve = "accepting"
    /\ v_listener = "open"
    /\ v_serve' = "unwinding"
    /\ v_listener' = "closed"
    /\ UNCHANGED << v_nil, v_done, v_shut, v_closes >>
    /\ UNCHANGED << h_vars, a_vars, r_vars, c_vars, g_vars, s_vars, d_vars, p_vars,
                 w_vars >>

\* lines 133, 136-140: Serve returns, the deferred close(s.done) runs
V_ServeReturn ==
    /\ v_serve = "unwinding"
    /\ v_done' = TRUE
    /\ v_serve' = "returned"
    /\ UNCHANGED << v_nil, v_listener, v_shut, v_closes >>
    /\ UNCHANGED << h_vars, a_vars, r_vars, c_vars, g_vars, s_vars, d_vars, p_vars,
                 w_vars >>

\* lines 145-147: Shutdown on a nil *Server returns at once
V_ShutdownNil ==
    /\ v_nil
    /\ \E i \in Callers :
          /\ v_shut[i] = "idle"
          /\ v_shut' = [v_shut EXCEPT ![i] = "returned"]
    /\ UNCHANGED << v_nil, v_serve, v_listener, v_done, v_closes >>
    /\ UNCHANGED << h_vars, a_vars, r_vars, c_vars, g_vars, s_vars, d_vars, p_vars,
                 w_vars >>

\* lines 145-150: the nil check fails; the two log calls are set up
V_ShutdownEnter ==
    /\ ~v_nil
    /\ \E i \in Callers :
          /\ v_shut[i] = "idle"
          /\ v_shut' = [v_shut EXCEPT ![i] = "closing"]
    /\ UNCHANGED << v_nil, v_serve, v_listener, v_done, v_closes >>
    /\ UNCHANGED << h_vars, a_vars, r_vars, c_vars, g_vars, s_vars, d_vars, p_vars,
                 w_vars >>

\* lines 151-153: s.listener.Close() is called (its error, as on a second
\* Close, is only logged), then the caller waits
V_ShutdownClose ==
    /\ \E i \in Callers :
          /\ v_shut[i] = "closing"
          /\ v_shut' = [v_shut EXCEPT ![i] = "waiting"]
    /\ v_listener' = "closed"
    /\ v_closes' = v_closes + 1
    /\ UNCHANGED << v_nil, v_serve, v_done >>
    /\ UNCHANGED << h_vars, a_vars, r_vars, c_vars, g_vars, s_vars, d_vars, p_vars,
                 w_vars >>

\* V_ShutdownDone, were the receive from s.done left out
V_ShutdownDone_noWait ==
    /\ \E i \in Callers :
          /\ v_shut[i] = "waiting"
          /\ v_shut' = [v_shut EXCEPT ![i] = "returned"]
    /\ UNCHANGED << v_nil, v_serve, v_listener, v_done, v_closes >>
    /\ UNCHANGED << h_vars, a_vars, r_vars, c_vars, g_vars, s_vars, d_vars, p_vars,
                 w_vars >>

\* line 154: <-s.done receives once the channel is closed; the caller
\* returns
V_ShutdownDone ==
    /\ v_done
    /\ \E i \in Callers :
          /\ v_shut[i] = "waiting"
          /\ v_shut' = [v_shut EXCEPT ![i] = "returned"]
    /\ UNCHANGED << v_nil, v_serve, v_listener, v_done, v_closes >>
    /\ UNCHANGED << h_vars, a_vars, r_vars, c_vars, g_vars, s_vars, d_vars, p_vars,
                 w_vars >>

\* after Create (lines 191-206): listener open, done channel open
InitServer ==
    /\ v_nil \in BOOLEAN
    /\ v_serve = "idle"
    /\ v_listener = "open"
    /\ v_done = FALSE
    /\ v_shut = [i \in Callers |-> "idle"]
    /\ v_closes = 0
    /\ HandlerIdle /\ AddressGenIdle /\ RecoveryIdle /\ CodecIdle
    /\ DeviceIdle /\ SendIdle /\ DecodersIdle /\ SetPinIdle /\ WriteIdle

NextServer ==
    \/ V_Serve
    \/ V_AcceptClosed
    \/ V_AcceptFails
    \/ V_ServeReturn
    \/ V_ShutdownNil
    \/ V_ShutdownEnter
    \/ V_ShutdownClose
    \/ V_ShutdownDone

\* a goroutine that can take its next step takes it: Accept on a closed
\* listener returns, the deferred close runs, Close is called, a receive on
\* a closed channel completes.  Calling Serve or Shutdown at all is left to
\* the callers.
FairServer ==
    /\ WF_vars(V_AcceptClosed)
    /\ WF_vars(V_ServeReturn)
    /\ WF_vars(V_ShutdownClose)
    /\ WF_vars(V_ShutdownDone)

SpecServer == InitServer /\ [][NextServer]_vars /\ FairServer

(***************************************************************************)
(* setPinCode action (http.go 415-437).  p_sent holds the device calls     *)
(* with the PIN each carries: the number of the console read that supplied *)
(* it, 0 for the empty pinEnc.  p_stdin holds the outcome of each Scanln.  *)
(***************************************************************************)
\* the value of pinEnc: the last line Scanln stored, none so far: 0
PinEnc(stdin) ==
    IF \E i \in 1..Len(stdin) : stdin[i] = "line"
    THEN CHOOSE i \in 1..Len(stdin) :
            /\ stdin[i] = "line"
            /\ \A j \in (i + 1)..Len(stdin) : stdin[j] # "line"
    ELSE 0

\* lines 421-425: msg, err := device.ChangePin()
P_Start ==
    /\ p_pc = "start"
    /\ p_sent' = Append(p_sent, [call |-> "ChangePin", pin |-> 0])
    /\ \/ /\ p_out' = IOError
          /\ p_pc' = "done"
          /\ UNCHANGED << p_msg, p_replies >>
       \/ \E reply \in SessionReplies :
            /\ p_msg' = reply
            /\ p_replies' = Append(p_replies, reply)
            /\ p_pc' = "loop"
            /\ UNCHANGED p_out
    /\ UNCHANGED p_stdin
    /\ UNCHANGED << h_vars, a_vars, r_vars, c_vars, g_vars, s_vars, d_vars, v_vars,
                 w_vars >>

\* lines 427-435: one iteration of for msg.Kind == PinMatrixRequest:
\* fmt.Scanln(&pinEnc), whose error is not looked at and which leaves
\* pinEnc as it was when it reads no token, then
\* msg, err = device.PinMatrixAck(pinEnc)
P_Pin ==
    /\ p_pc = "loop"
    /\ p_msg.kind = "PinMatrixRequest"
    /\ \E read \in {"line", "nothing"} :
          /\ p_stdin' = Append(p_stdin, read)
          /\ p_sent' = Append(p_sent, [call |-> "PinMatrixAck",
                                       pin |-> PinEnc(Append(p_stdin, read))])
    /\ \/ /\ p_out' = IOError
          /\ p_pc' = "done"
          /\ UNCHANGED << p_msg, p_replies >>
       \/ \E reply \in SessionReplies :
            /\ Len(p_sent) < MaxSends
            /\ p_msg' = reply
            /\ p_replies' = Append(p_replies, reply)
            /\ UNCHANGED << p_pc, p_out >>
    /\ UNCHANGED << h_vars, a_vars, r_vars, c_vars, g_vars, s_vars, d_vars, v_vars,
                 w_vars >>

\* lines 427 and 436: msg.Kind is not PinMatrixRequest, the loop and the
\* action end
P_Exit ==
    /\ p_pc = "loop"
    /\ p_msg.kind # "PinMatrixRequest"
    /\ p_pc' = "done"
    /\ UNCHANGED << p_msg, p_replies, p_sent, p_stdin, p_out >>
    /\ UNCHANGED << h_vars, a_vars, r_vars, c_vars, g_vars, s_vars, d_vars, v_vars,
                 w_vars >>

InitSetPin ==
    /\ p_pc = "start"
    /\ p_msg = NoMsg
    /\ p_replies = << >>
    /\ p_sent = << >>
    /\ p_stdin = << >>
    /\ p_out = NoOut
    /\ HandlerIdle /\ AddressGenIdle /\ RecoveryIdle /\ CodecIdle
    /\ DeviceIdle /\ SendIdle /\ DecodersIdle /\ ServerIdle /\ WriteIdle

NextSetPin ==
    \/ P_Start
    \/ P_Pin
    \/ P_Exit

SpecSetPin == InitSetPin /\ [][NextSetPin]_vars

(***************************************************************************)
(* writeHTTPResponse called with any HTTPResponse (http.go 74-129).        *)
(***************************************************************************)
\* error codes given to HTTPError.Code: below, at and above both ends of
\* the range writeHTTPResponse accepts, and codes the handler uses
Codes == {-1, 0, 200, 399, 400, 409, 500, 599, 600}

\* values of HTTPResponse.Data
Datas == Texts \cup {Unmarshalable}

\* the HTTPResponse values: Error nil or set, with any Data
Responses ==
    {DataResponse(d) : d \in Datas}
    \cup {[NewHTTPErrorResponse(code, msg) EXCEPT !.data = d] :
            code \in Codes, msg \in Texts, d \in Datas}

\* lines 106-129: one call of writeHTTPResponse
W_Write ==
    /\ w_pc = "call"
    /\ w_out' = writeHTTPResponse(w_resp)
    /\ w_pc' = "done"
    /\ UNCHANGED w_resp
    /\ UNCHANGED << h_vars, a_vars, r_vars, c_vars, g_vars, s_vars, d_vars, v_vars, p_vars >>

InitWrite ==
    /\ w_pc = "call"
    /\ w_resp \in Responses
    /\ w_out = [status |-> 0, body |-> DataResponse("")]
    /\ HandlerIdle /\ AddressGenIdle /\ RecoveryIdle /\ CodecIdle
    /\ DeviceIdle /\ SendIdle /\ DecodersIdle /\ ServerIdle /\ SetPinIdle

NextWrite == W_Write

SpecWrite == InitWrite /\ [][NextWrite]_vars

(***************************************************************************)
(* Properties of HandleFirmwareResponseMessages, checked under Spec.       *)
(***************************************************************************)
\* the message the handler finished on, and the response it wrote last
h_final == h_chain[Len(h_chain)]

h_written == h_resp[Len(h_resp)]

\* number of ButtonRequest messages among the first n of the chain
ButtonRequestsIn(chain, n) ==
    Cardinality({i \in 1..n : chain[i].kind = "ButtonRequest"})

\* C2: for a chain of k >= 0 ButtonRequest replies followed by a reply of
\* another kind the handler sends exactly k ButtonAck messages, one per
\* ButtonRequest and each before the next reply is inspected, sends nothing
\* else, and then dispatches on the final reply.
C2_OneAckPerButtonRequest ==
    /\ \A i \in 1..Len(h_sent) : h_sent[i] = "ButtonAck"
    /\ h_pc = "call" =>
          Len(h_sent) = ButtonRequestsIn(h_chain, Len(h_chain) - 1)
    /\ (h_pc = "done" /\ h_final.kind # "ButtonRequest") =>
          /\ Len(h_sent) = ButtonRequestsIn(h_chain, Len(h_chain))
          /\ \A i \in 1..(Len(h_chain) - 1) : h_chain[i].kind = "ButtonRequest"
          /\ h_resp = << writeHTTPResponse(Respond(h_final)) >>

\* C2 witness: two ButtonRequest replies, then Success, handled to the end
C2_Witness ==
    /\ h_pc = "done"
    /\ Len(h_chain) = 3
    /\ h_final.kind = "Success"
    /\ h_sent = << "ButtonAck", "ButtonAck" >>

\* C4: an invocation on a kind the switch has no case for writes an error
\* response with status 500 and sends nothing to the device.
C4_UnexpectedKindIs500 ==
    [][ (h_pc = "call" /\ h_msg.kind \notin HandledKinds) =>
            /\ h_sent' = h_sent
            /\ h_pc' = "done"
            /\ Len(h_resp') = Len(h_resp) + 1
            /\ h_resp'[Len(h_resp')].status = 500
            /\ h_resp'[Len(h_resp')].body.hasError ]_vars

\* C4 witness: an unexpected kind arrived as the reply to a ButtonAck
C4_Witness ==
    /\ h_pc = "done"
    /\ Len(h_chain) = 2
    /\ h_final.kind = "EntropyRequest"
    /\ h_written.status = 500

\* C6 as stated: a Failure whose payload decodes is written with status 409
\* and the decoded failure text, and nothing else is written with 409.
C6_Original ==
    h_pc = "done" =>
        /\ (h_final.kind = "Failure" /\ h_final.decodes) =>
              /\ h_written.status = 409
              /\ h_written.body.hasError
              /\ h_written.body.message = h_final.text
        /\ h_written.status = 409 =>
              (h_final.kind = "Failure" /\ h_final.decodes /\ ~h_ackErr)

\* C6 as amended: the 409 response carries the decoded failure text, or the
\* status text "Conflict" when the decoded text is empty; no other outcome
\* is written with status 409.
C6_Failure409 ==
    h_pc = "done" =>
        /\ (h_final.kind = "Failure" /\ h_final.decodes) =>
              /\ h_written.status = 409
              /\ h_written.body.hasError
              /\ h_written.body.message =
                    (IF h_final.text = "" THEN "Conflict" ELSE h_final.text)
        /\ h_written.status = 409 =>
              (h_final.kind = "Failure" /\ h_final.decodes /\ ~h_ackErr)

\* C6 witness: a decoded Failure with a text, after a ButtonRequest
C6_Witness ==
    /\ h_pc = "done"
    /\ Len(h_chain) = 2
    /\ h_final = [kind |-> "Failure", decodes |-> TRUE, text |-> "declined"]
    /\ h_written.status = 409
    /\ h_written.body.message = "declined"

\* C7: on PinMatrixRequest, PassphraseRequest or WordRequest the invocation
\* returns with a non-error response naming the prompt and sends nothing to
\* the device; it does not go on to a further reply.
C7_PromptReturnsToCaller ==
    [][ (h_pc = "call" /\ h_msg.kind \in PromptKinds) =>
            /\ h_sent' = h_sent
            /\ h_chain' = h_chain
            /\ h_pc' = "done"
            /\ Len(h_resp') = Len(h_resp) + 1
            /\ h_resp'[Len(h_resp')].status = 200
            /\ ~h_resp'[Len(h_resp')].body.hasError
            /\ h_resp'[Len(h_resp')].body.data =
                  (CASE h_msg.kind = "PinMatrixRequest" -> "PinMatrixRequest"
                     [] h_msg.kind = "PassphraseRequest" -> "PassPhraseRequest"
                     [] h_msg.kind = "WordRequest" -> "WordRequest") ]_vars

\* C7 witness: a PinMatrixRequest that followed a ButtonRequest was answered
\* to the caller with only the ButtonAck sent
C7_Witness ==
    /\ h_pc = "done"
    /\ Len(h_chain) = 2
    /\ h_final.kind = "PinMatrixRequest"
    /\ h_sent = << "ButtonAck" >>
    /\ h_written.body.data = "PinMatrixRequest"

(***************************************************************************)
(* Properties of the addressGen session, checked under SpecAddressGen.     *)
(***************************************************************************)
\* number of entries of seq equal to x
CountOf(seq, x) == Cardinality({i \in 1..Len(seq) : seq[i] = x})

\* number of replies of the given kind
RepliesOfKind(replies, kind) ==
    Cardinality({i \in 1..Len(replies) : replies[i].kind = kind})

\* a reply sequence of PinMatrixRequest, PassphraseRequest and ButtonRequest
\* prompts that ends in ResponseSkycoinAddress or Failure
AG_ScriptedToTerminal(replies) ==
    /\ Len(replies) >= 1
    /\ \A i \in 1..(Len(replies) - 1) :
          replies[i].kind \in {"PinMatrixRequest", "PassphraseRequest", "ButtonRequest"}
    /\ replies[Len(replies)].kind \in {"ResponseSkycoinAddress", "Failure"}

\* C1: a reply sequence of PinMatrixRequest, PassphraseRequest and
\* ButtonRequest replies ending in ResponseSkycoinAddress or Failure drives
\* the loop to that terminal reply: the loop always dispatches on the latest
\* reply, issues one send per reply, reads one PIN per PinMatrixRequest
\* reply, and stops sending once the terminal reply has arrived.
C1_Original ==
    /\ a_pc = "loop" => a_msg = a_replies[Len(a_replies)]
    /\ CountOf(a_stdin, "pin") <= RepliesOfKind(a_replies, "PinMatrixRequest")
    /\ AG_ScriptedToTerminal(a_replies) =>
          /\ Len(a_sent) = Len(a_replies)
          /\ CountOf(a_stdin, "pin") = RepliesOfKind(a_replies, "PinMatrixRequest")
          /\ a_pc = "done" => a_out.kind \in {"addresses", "failure", "decodeError"}

\* C3: an iteration of the loop on a kind that is none of PinMatrixRequest,
\* PassphraseRequest, ButtonRequest, ResponseSkycoinAddress or Failure ends
\* the command with an unexpected-message-kind failure.
C3_Original ==
    [][ (a_pc = "loop" /\ a_msg.kind \notin {"PinMatrixRequest", "PassphraseRequest",
                "ButtonRequest", "ResponseSkycoinAddress", "Failure"}) =>
            (a_pc' = "done" /\ a_out'.kind = "unexpectedKind") ]_vars

\* C8: the reply sequence ButtonRequest -> Failure(m) ends in the failure
\* outcome with message m after exactly 2 sends (the request and one
\* ButtonAck), with nothing read from the console and no send, and hence no
\* reply, after the Failure.
C8_FailureShortCircuit ==
    (/\ Len(a_replies) >= 2
     /\ a_replies[1].kind = "ButtonRequest"
     /\ a_replies[2].kind = "Failure"
     /\ a_replies[2].decodes) =>
        /\ Len(a_replies) = 2
        /\ a_sent = << "AddressGen", "ButtonAck" >>
        /\ a_stdin = << >>
        /\ a_pc \in {"loop", "done"}
        /\ a_pc = "loop" => a_msg = a_replies[2]
        /\ a_pc = "done" => a_out = [kind |-> "failure", text |-> a_replies[2].text]

\* C8 witness: ButtonRequest -> Failure("declined") has ended the command
C8_Witness ==
    /\ a_pc = "done"
    /\ Len(a_replies) = 2
    /\ a_replies[1].kind = "ButtonRequest"
    /\ a_replies[2] = [kind |-> "Failure", decodes |-> TRUE, text |-> "declined"]
    /\ a_out = [kind |-> "failure", text |-> "declined"]
    /\ Len(a_sent) = 2

(***************************************************************************)
(* Properties of the recovery session, checked under SpecRecovery.         *)
(***************************************************************************)
\* C5: every reply chain of WordRequest and ButtonRequest prompts, in any
\* order and number, is driven to its Success or Failure reply: the command
\* never ends (other than on a device error) while the latest reply is a
\* prompt, each WordRequest got one WordAck with one word read, each
\* ButtonRequest one ButtonAck, and the terminal reply's text is printed.
C5_Original ==
    (r_pc = "done" /\ r_out.kind # "ioError") =>
        LET last == r_replies[Len(r_replies)] IN
        /\ last.kind \notin {"WordRequest", "ButtonRequest"}
        /\ CountOf(r_sent, "WordAck") = RepliesOfKind(r_replies, "WordRequest")
        /\ CountOf(r_stdin, "word") = RepliesOfKind(r_replies, "WordRequest")
        /\ CountOf(r_sent, "ButtonAck") = RepliesOfKind(r_replies, "ButtonRequest")
        /\ (last.kind \in {"Success", "Failure"} /\ last.decodes) =>
              r_out = [kind |-> "text", text |-> last.text]


(***************************************************************************)
(* Properties of makeSkyWalletMessage, checked under SpecCodec.            *)
(***************************************************************************)
\* the payload without its first byte (the empty payload when it is empty)
EffectivePayload(data) == IF Len(data) > 0 THEN Tail(data) ELSE << >>

\* C9: decoding the packets of makeSkyWalletMessage(payload, kind) gives the
\* same kind and the original payload without its first byte (the empty
\* payload when it is empty).
C9_Original ==
    c_pc = "decoded" =>
        /\ c_dec.err = "none"
        /\ c_dec.kind = c_kind
        /\ c_dec.data = EffectivePayload(c_payload)

\* C10: makeSkyWalletMessage returns exactly ceil((9 + effective payload
\* length) / 63) packets, each of 64 bytes with '?' at byte 0, and exactly
\* one packet for the empty payload.
C10_Original ==
    c_pc \in {"encoded", "decoded"} =>
        LET eff == Len(EffectivePayload(c_payload)) IN
        /\ ~c_out.panic
        /\ Len(c_out.chunks) = (9 + eff + 62) \div 63
        /\ \A i \in 1..Len(c_out.chunks) :
              Len(c_out.chunks[i]) = 64 /\ c_out.chunks[i][1] = 63
        /\ c_payload = << >> => Len(c_out.chunks) = 1

\* the frame as C11 describes it: '#' '#', the kind as big-endian u16, the
\* payload length as big-endian u32, '\n', then the payload without its
\* first byte
C11_Frame ==
    << 35, 35, (c_kind \div 256) % 256, c_kind % 256,
       0, (Len(c_payload) \div 65536) % 256, (Len(c_payload) \div 256) % 256,
       Len(c_payload) % 256, 10 >> \o EffectivePayload(c_payload)

\* C11: bytes 1..63 of packet i equal bytes [63*i, 63*i+63) of the frame, in
\* order, and every packet byte past the end of the frame is zero, for every
\* payload.
C11_Original ==
    c_pc \in {"encoded", "decoded"} =>
        /\ ~c_out.panic
        /\ Len(c_out.chunks) >= 1
        /\ \A i \in 1..Len(c_out.chunks) : \A j \in 1..63 :
              c_out.chunks[i][j + 1] =
                 (IF 63 * (i - 1) + j <= Len(C11_Frame)
                  THEN C11_Frame[63 * (i - 1) + j] ELSE 0)

(***************************************************************************)
(* Properties of GetDevice and getUsbDevice, checked under SpecDevice.     *)
(***************************************************************************)
g_connects == {i \in 1..Len(g_events) : g_events[i].op = "connect"}

g_returned == g_pc \in {"check", "done"}

\* C12: once enumeration has returned at least one device, getUsbDevice
\* makes at most 3 connect attempts, every one to the first enumerated
\* device; a successful attempt is the last thing the loop does and its
\* handle is what is returned, so the loop stops at the first success; each
\* failed attempt is directly followed by a delay and nothing else is; and
\* a success after two failures is returned after exactly 3 attempts.
C12_ConnectRetry ==
    Len(g_infos) >= 1 =>
        /\ Cardinality(g_connects) <= 3
        /\ \A i \in g_connects : g_events[i].path = g_infos[1]
        /\ \A i \in g_connects :
              IF g_events[i].ok
              THEN /\ i = Len(g_events)
                   /\ g_returned
                   /\ g_dev = [kind |-> "usb", path |-> g_infos[1]]
                   /\ g_err = "nil"
              ELSE i < Len(g_events) /\ g_events[i + 1].op = "sleep"
        /\ \A i \in 1..Len(g_events) :
              g_events[i].op = "sleep" =>
                  i > 1 /\ g_events[i - 1].op = "connect" /\ ~g_events[i - 1].ok
        /\ (g_returned /\ g_dev.kind = "usb") =>
              /\ g_events # << >>
              /\ g_events[Len(g_events)].op = "connect"
              /\ g_events[Len(g_events)].ok
              /\ Cardinality(g_connects) = g_tries + 1
        /\ (g_returned /\ g_dev.kind # "usb") =>
              /\ Cardinality(g_connects) = 3
              /\ \A i \in g_connects : ~g_events[i].ok

\* the first two attempts failed, the third succeeded and its handle is
\* what GetDevice returned
C12_Witness ==
    /\ g_pc = "done"
    /\ Len(g_infos) = 2
    /\ g_events = << ConnectEvent(g_infos[1], FALSE), SleepEvent,
                     ConnectEvent(g_infos[1], FALSE), SleepEvent,
                     ConnectEvent(g_infos[1], TRUE) >>
    /\ g_dev = [kind |-> "usb", path |-> g_infos[1]]
    /\ g_err = "nil"

\* C13: when enumeration returned a device and all 3 connect attempts
\* failed, getUsbDevice returns a non-nil error, and what GetDevice then
\* returns differs from what it returns when no device was found.
C13_Original ==
    (g_returned /\ Len(g_infos) >= 1 /\ g_tries = 3) =>
        /\ g_pc = "check" => g_err # "nil"
        /\ g_pc = "done" => g_err \notin {"nil", "No device connected"}

(***************************************************************************)
(* Properties of sendToDeviceNoAnswer and sendToDevice, checked under      *)
(* SpecSend.                                                               *)
(***************************************************************************)
s_writes == {i \in 1..Len(s_log) : s_log[i].op = "write"}

s_reads == {i \in 1..Len(s_log) : s_log[i].op = "read"}

s_failedWrites == {i \in s_writes : ~s_log[i].ok}

\* C14: sendToDeviceNoAnswer does nothing but write: its k-th write is of
\* the k-th packet of the list, so the packets go out in list order, one
\* write each, none twice; a failed write is the last thing it does and
\* its error is what the call returns; it returns nil only after all the
\* packets were written successfully.
C14_NoAnswerFailsFast ==
    s_fn = "sendToDeviceNoAnswer" =>
        /\ s_reads = {}
        /\ Len(s_log) <= Len(s_chunks)
        /\ \A i \in 1..Len(s_log) :
              s_log[i].idx = i /\ s_log[i].chunk = s_chunks[i]
        /\ \A i \in s_failedWrites :
              /\ i = Len(s_log)
              /\ s_pc = "done"
              /\ s_ret.err = "write error"
        /\ (s_pc = "done" /\ s_failedWrites = {}) =>
              Len(s_log) = Len(s_chunks) /\ s_ret.err = "nil"

\* the second of three packets failed: two writes, the error returned
C14_Witness ==
    /\ s_fn = "sendToDeviceNoAnswer"
    /\ s_pc = "done"
    /\ Len(s_chunks) = 3
    /\ Len(s_log) = 2
    /\ s_log[1].ok
    /\ ~s_log[2].ok
    /\ s_ret.err = "write error"

\* C15: sendToDevice reads at most once, as the last thing it does, and
\* only after one successful write of every packet; after a failed write
\* it returns that error having read nothing; when no write failed it
\* returns after exactly one read, whose failure is the error returned.
C15_ReadAfterWrites ==
    s_fn = "sendToDevice" =>
        /\ Cardinality(s_reads) <= 1
        /\ \A i \in s_reads :
              /\ i = Len(s_log)
              /\ i = Len(s_chunks) + 1
              /\ \A j \in 1..(i - 1) :
                    s_log[j].op = "write" /\ s_log[j].ok /\ s_log[j].idx = j
              /\ s_pc = "done"
              /\ s_ret = [err |-> IF s_log[i].ok THEN "nil" ELSE "read error",
                          msg |-> s_log[i].ok]
        /\ \A i \in s_failedWrites :
              /\ i = Len(s_log)
              /\ s_reads = {}
              /\ s_pc = "done"
              /\ s_ret.err = "write error"
        /\ (s_pc = "done" /\ s_failedWrites = {}) => Cardinality(s_reads) = 1

\* three packets written, then the one read failed
C15_Witness ==
    /\ s_fn = "sendToDevice"
    /\ s_pc = "done"
    /\ Len(s_chunks) = 3
    /\ Len(s_log) = 4
    /\ s_log[4].op = "read"
    /\ ~s_log[4].ok
    /\ s_ret.err = "read error"

(***************************************************************************)
(* Properties of the response decoders, checked under SpecDecoders.        *)
(***************************************************************************)
\* the one kind each single-kind decoder is for
OwnKind ==
    [DecodeSuccessMsg |-> "Success",
     DecodeFailMsg |-> "Failure",
     DecodeResponseSkycoinAddress |-> "ResponseSkycoinAddress",
     DecodeResponseTransactionSign |-> "ResponseTransactionSign",
     DecodeResponseSkycoinSignMessage |-> "ResponseSkycoinSignMessage"]

\* C16: each of the five single-kind decoders returns an error and an empty
\* value for a message of any kind but its own; DecodeSuccessOrFailMsg
\* returns an error and an empty value for any kind but Success and
\* Failure, returns what DecodeSuccessMsg returns on a Success message and
\* what DecodeFailMsg returns on a Failure message.
C16_KindGuard ==
    \A r \in d_res :
        IF r.decoder = "DecodeSuccessOrFailMsg"
        THEN /\ d_msg.kind \notin {"Success", "Failure"} =>
                    r.res.err # "none" /\ r.res.val = ""
             /\ \A q \in d_res :
                    \/ q.decoder = "DecodeSuccessMsg" /\ d_msg.kind = "Success"
                    \/ q.decoder = "DecodeFailMsg" /\ d_msg.kind = "Failure"
                    => q.res = r.res
        ELSE d_msg.kind # OwnKind[r.decoder] =>
                    r.res.err # "none" /\ r.res.val = ""

\* all six decoders were called on a Success message that carries a text:
\* DecodeSuccessOrFailMsg and DecodeSuccessMsg returned it, the others failed
C16_Witness ==
    /\ d_msg = [kind |-> "Success", decodes |-> TRUE, text |-> "declined"]
    /\ Cardinality(d_res) = 6
    /\ \A r \in d_res :
          IF r.decoder \in {"DecodeSuccessOrFailMsg", "DecodeSuccessMsg"}
          THEN r.res = [err |-> "none", val |-> "declined"]
          ELSE r.res.err = "wrongKind"

(***************************************************************************)
(* Properties of Serve and Shutdown, checked under SpecServer.             *)
(***************************************************************************)
\* C17: on a Server on which Serve is called, in whatever order with the
\* calls of Shutdown, every Shutdown that is called returns, and a Shutdown
\* has returned only when Serve has returned and closed the done channel;
\* on a nil Server a Shutdown is never left waiting and the listener is
\* never closed.
C17_ShutdownWaitsForServe ==
    /\ [](\A i \in Callers :
            /\ (~v_nil /\ v_shut[i] = "returned") => (v_done /\ v_serve = "returned")
            /\ v_nil => (v_shut[i] \in {"idle", "returned"} /\ v_closes = 0
                         /\ v_listener = "open"))
    /\ \A i \in Callers :
            (v_shut[i] # "idle" /\ v_serve # "idle") ~> (v_shut[i] = "returned")

\* every caller of Shutdown has closed the listener and returned after
\* Serve closed the done channel
C17_Witness ==
    /\ ~v_nil
    /\ v_serve = "returned"
    /\ v_done
    /\ v_closes = NumShutdown
    /\ \A i \in Callers : v_shut[i] = "returned"

(***************************************************************************)
(* Termination of HandleFirmwareResponseMessages, checked under SpecFair.  *)
(***************************************************************************)
\* C18: the nesting depth of the handler is the number of ButtonRequest
\* replies it has been through, all consecutive from the first message;
\* it has returned only if the last reply was not a ButtonRequest or a
\* ButtonAck failed, so with ButtonRequest replies only and no failure it
\* goes on at every depth; and once a reply is not a ButtonRequest, or a
\* ButtonAck has failed, it returns.
C18_TerminatesOnlyOffButtonRequest ==
    /\ [](/\ h_depth = Len(h_chain) - 1
          /\ \A i \in 1..h_depth : h_chain[i].kind = "ButtonRequest"
          /\ h_pc = "done" => (h_ackErr \/ h_final.kind # "ButtonRequest")
          /\ h_pc = "done" => Len(h_resp) = 1
          /\ h_pc = "call" => h_resp = << >>)
    /\ (h_final.kind # "ButtonRequest" \/ h_ackErr) ~> (h_pc = "done")

\* returned at the deepest nesting the bound allows, on a Success reply
C18_Witness ==
    /\ h_pc = "done"
    /\ h_depth = MaxChain - 1
    /\ ~h_ackErr
    /\ h_final.kind = "Success"

(***************************************************************************)
(* Properties of setPinCode, checked under SpecSetPin.                     *)
(***************************************************************************)
p_acks(call) == {i \in 1..Len(p_sent) : p_sent[i].call = call}

p_repliesOf(kind) == {i \in 1..Len(p_replies) : p_replies[i].kind = kind}

\* C19: when the session has ended without a device error, every
\* ButtonRequest reply was answered by a ButtonAck, so there are as many
\* ButtonAck calls as ButtonRequest replies and the last reply is not a
\* ButtonRequest; and every PinMatrixRequest reply was answered by one
\* PinMatrixAck, each carrying the PIN read from the console for it.
C19_Original ==
    (p_pc = "done" /\ p_out = NoOut) =>
        /\ Cardinality(p_acks("ButtonAck")) = Cardinality(p_repliesOf("ButtonRequest"))
        /\ p_replies[Len(p_replies)].kind # "ButtonRequest"
        /\ Cardinality(p_acks("PinMatrixAck")) = Cardinality(p_repliesOf("PinMatrixRequest"))
        /\ \A i, j \in p_acks("PinMatrixAck") :
              p_sent[i].pin # 0 /\ (i # j => p_sent[i].pin # p_sent[j].pin)

(***************************************************************************)
(* Decoder calls of the two sessions, checked under SpecSessions.          *)
(***************************************************************************)
\* C20: in HandleFirmwareResponseMessages and in addressGen a decoder is
\* called at most once, as the session ends, on the last reply received,
\* which is of a terminal kind and of the decoder's own kind; no response
\* and no output carries a decoder's wrong-kind error.
C20_DecodersOnMatchingTerminal ==
    /\ Len(h_calls) <= 1
    /\ \A i \in 1..Len(h_calls) :
          /\ h_pc = "done"
          /\ h_calls[i].kind = h_final.kind
          /\ h_calls[i].kind \in {"Failure", "Success"} \cup TypedKinds
          /\ h_calls[i].kind = OwnKind[h_calls[i].decoder]
    /\ \A i \in 1..Len(h_resp) : h_resp[i].body.message # ErrText("wrongKind")
    /\ Len(a_calls) <= 1
    /\ \A i \in 1..Len(a_calls) :
          /\ a_pc = "done"
          /\ a_calls[i].kind = a_replies[Len(a_replies)].kind
          /\ a_calls[i].kind \in {"Failure", "ResponseSkycoinAddress"}
          /\ a_calls[i].kind = OwnKind[a_calls[i].decoder]
    /\ a_out # DecodeError("wrongKind")

\* addressGen went through a ButtonRequest and decoded the addresses
C20_Witness ==
    /\ a_pc = "done"
    /\ Len(a_replies) = 2
    /\ a_replies[1].kind = "ButtonRequest"
    /\ a_calls = << [decoder |-> "DecodeResponseSkycoinAddress",
                     kind |-> "ResponseSkycoinAddress"] >>
    /\ a_out.kind = "addresses"

(***************************************************************************)
(* What GetDevice returns, checked under SpecDevice.                       *)
(***************************************************************************)
\* C22: when GetDevice has returned, for every device type and every
\* outcome of the initialisation, enumeration and connection, exactly one
\* of the device and the error is nil; and when the USB enumeration gave
\* no candidate, no connect was attempted and an error is returned.
C22_DeviceXorError ==
    g_pc = "done" =>
        /\ (g_dev = NilDev) # (g_err = "nil")
        /\ g_type \notin {DeviceTypeEmulator, DeviceTypeUSB} =>
              g_dev = NilDev /\ g_err = "No device connected"
        /\ (g_type = DeviceTypeUSB /\ g_infos = << >>) =>
              g_events = << >> /\ g_dev = NilDev /\ g_err # "nil"

\* USB, the enumeration succeeded with no candidate: GetDevice returned the
\* error it makes up itself, and no connect was attempted
C22_Witness ==
    /\ g_pc = "done"
    /\ g_type = DeviceTypeUSB
    /\ g_tries = 0
    /\ g_infos = << >>
    /\ g_enumErr = "nil"
    /\ g_events = << >>
    /\ g_dev = NilDev
    /\ g_err = "No device connected"

(***************************************************************************)
(* The responses of HandleFirmwareResponseMessages, checked under Spec.    *)
(***************************************************************************)
\* C21: while the top-level call of the handler runs, no response has been
\* written, and when it has returned, exactly one has: the 401 of the
\* failed ButtonAck, or else the response of the case of the last reply,
\* whatever the chain of replies before it.
C21_ExactlyOneResponse ==
    /\ h_pc = "call" => Len(h_resp) = 0
    /\ h_pc = "done" =>
          /\ Len(h_resp) = 1
          /\ h_resp[1] =
                IF h_ackErr
                THEN writeHTTPResponse(NewHTTPErrorResponse(StatusUnauthorized, AckErrText))
                ELSE writeHTTPResponse(Respond(h_final))

\* two ButtonRequest replies, then a Success whose data does not decode:
\* the one response is the 401 of the decoding error
C21_Witness ==
    /\ h_pc = "done"
    /\ Len(h_chain) = 3
    /\ h_final.kind = "Success"
    /\ ~h_final.decodes
    /\ ~h_ackErr
    /\ Len(h_resp) = 1
    /\ h_resp[1].status = StatusUnauthorized

(***************************************************************************)
(* The status writeHTTPResponse writes, checked under SpecWrite.           *)
(***************************************************************************)
\* the status C23 gives for a response
C23_Status(resp) ==
    IF ~resp.hasError THEN 200
    ELSE IF 400 <= resp.code /\ resp.code < 600 THEN resp.code
    ELSE 500

\* C23, as stated: the written status is 200 exactly when the response has
\* no error, and otherwise the error's code when 400 <= code < 600 and 500
\* for any other code; it is 200 or within [400, 600), and never 200 for a
\* response with an error.
C23_Original ==
    w_pc = "done" =>
        /\ (w_out.status = 200) <=> ~w_resp.hasError
        /\ w_out.status = C23_Status(w_resp)
        /\ w_out.status = 200 \/ (400 <= w_out.status /\ w_out.status < 600)
        /\ w_resp.hasError => w_out.status # 200

\* C23, amended: for a response that json.MarshalIndent can marshal the
\* written status is 200 exactly when it has no error, else the error's
\* code when 400 <= code < 600 and 500 for any other code; for a response
\* that cannot be marshalled it is 500, error or not; in every case it is
\* 200 or within [400, 600) and never 200 for a response with an error.
C23_StatusWhenMarshalled ==
    w_pc = "done" =>
        /\ Marshals(w_resp) =>
              /\ (w_out.status = 200) <=> ~w_resp.hasError
              /\ w_out.status = C23_Status(w_resp)
        /\ ~Marshals(w_resp) => w_out.status = 500
        /\ w_out.status = 200 \/ (400 <= w_out.status /\ w_out.status < 600)
        /\ w_resp.hasError => w_out.status # 200

\* an error whose code is just past the range was written as 500
C23_Witness ==
    /\ w_pc = "done"
    /\ Marshals(w_resp)
    /\ w_resp.hasError
    /\ w_resp.code = 600
    /\ w_out.status = 500
    /\ w_out.body = w_resp

=============================================================================
